---- MODULE Spec2Model ----
(***************************************************************************)
(* Model of the micro-inventory dashboard (app.py / cronogramaupload.py):  *)
(* the cell classifier get_cell_status, the aggregator load_data and the   *)
(* planning metrics computed by main.                                       *)
(*                                                                         *)
(* Text is modelled as a sequence of one-character strings so that         *)
(* str.upper and str.strip are computed, not assumed.  A cell of the       *)
(* pandas frame is a record [na, s]: na = TRUE is NaN (empty cell).        *)
(* A tint is kept in tenths (tint -0.5 is -5); only its sign is used.      *)
(***************************************************************************)
EXTENDS Integers, Sequences, FiniteSets, TLC

\* ------------------------------------------------------------------------
\* Bounds of the model
\* ------------------------------------------------------------------------
MaxCols == 2   \* columns of the sheet
MaxPos  == 2   \* position rows of the sheet (rows from index 6 down)

\* ------------------------------------------------------------------------
\* Structure of the sheet
\* ------------------------------------------------------------------------
IDX_DIA       == 2
IDX_DATA      == 4
IDX_POS_START == 6

\* ------------------------------------------------------------------------
\* Text helpers
\* ------------------------------------------------------------------------
LowerChars ==
    <<"a","b","c","d","e","f","g","h","i","j","k","l","m",
      "n","o","p","q","r","s","t","u","v","w","x","y","z","á">>
UpperChars ==
    <<"A","B","C","D","E","F","G","H","I","J","K","L","M",
      "N","O","P","Q","R","S","T","U","V","W","X","Y","Z","Á">>

UpperChar(c) ==
    IF \E i \in DOMAIN LowerChars : LowerChars[i] = c
    THEN UpperChars[CHOOSE i \in DOMAIN LowerChars : LowerChars[i] = c]
    ELSE c

\* str.upper()
Upper(s) == [i \in DOMAIN s |-> UpperChar(s[i])]

Whitespace == {" ", "\t", "\n"}

RECURSIVE LStrip(_)
LStrip(s) ==
    IF s # <<>> /\ Head(s) \in Whitespace THEN LStrip(Tail(s)) ELSE s

RECURSIVE RStrip(_)
RStrip(s) ==
    IF s # <<>> /\ s[Len(s)] \in Whitespace
    THEN RStrip(SubSeq(s, 1, Len(s) - 1))
    ELSE s

\* str.strip()
Strip(s) == RStrip(LStrip(s))

\* ------------------------------------------------------------------------
\* Colour sets
\* ------------------------------------------------------------------------
GREEN_RGB ==
    { <<"F","F","0","0","F","F","0","0">>,
      <<"F","F","0","0","B","0","5","0">>,
      <<"F","F","9","2","D","0","5","0">>,
      <<"F","F","7","0","A","D","4","7">> }

YELLOW_RGB ==
    { <<"F","F","F","F","F","F","0","0">>,
      <<"F","F","F","F","C","0","0","0">>,
      <<"F","F","F","F","F","F","9","9">>,
      <<"F","F","F","F","E","B","9","C">> }

RED_RGB ==
    { <<"F","F","F","F","0","0","0","0">>,
      <<"F","F","C","0","0","0","0","0">>,
      <<"F","F","F","F","4","4","4","4">>,
      <<"F","F","F","F","0","0","0","0">> }

RGB_ZERO == <<"0","0","0","0","0","0","0","0">>

Statuses == {"INVENTARIADO", "EM ANDAMENTO", "PROBLEMA", "PENDENTE"}

\* ------------------------------------------------------------------------
\* Colour descriptors.
\*   Color: kind  "color" | "none" (fgColor is None) | "missing" (reading
\*                fgColor raises)
\*          type  "rgb" | "theme" | "indexed" | "raise" (reading type raises)
\*          rgb   the code, as text
\*          theme_none / theme   the theme index, or None
\*          tint_kind  "num" | "none" (tint is None) | "bad" (not a number)
\*          tint  tenths
\*   Fill:  kind  "fill" | "none" (cell.fill is None) | "missing" (reading
\*                cell.fill raises)
\*          fill_type "solid" | "none" | "gray125" | "linear"
\* ------------------------------------------------------------------------
NoColor(k) ==
    [kind |-> k, type |-> "rgb", rgb |-> <<>>, theme_none |-> TRUE,
     theme |-> 0, tint_kind |-> "num", tint |-> 0]

RgbColor(code) ==
    [kind |-> "color", type |-> "rgb", rgb |-> code, theme_none |-> TRUE,
     theme |-> 0, tint_kind |-> "num", tint |-> 0]

ThemeColor(th, tk, t) ==
    [kind |-> "color", type |-> "theme", rgb |-> <<>>, theme_none |-> FALSE,
     theme |-> th, tint_kind |-> tk, tint |-> t]

ThemeNoneColor ==
    [kind |-> "color", type |-> "theme", rgb |-> <<>>, theme_none |-> TRUE,
     theme |-> 0, tint_kind |-> "num", tint |-> 0]

OtherColor(ty) ==
    [kind |-> "color", type |-> ty, rgb |-> <<>>, theme_none |-> TRUE,
     theme |-> 0, tint_kind |-> "num", tint |-> 0]

PatternFill(ft, fg) == [kind |-> "fill", fill_type |-> ft, fg |-> fg]
NoFill(k) == [kind |-> k, fill_type |-> "none", fg |-> NoColor("none")]

\* a cell as openpyxl creates it: a pattern fill with no fill type
DefaultCell == [fill |-> PatternFill("none", RgbColor(RGB_ZERO))]

\* ------------------------------------------------------------------------
\* get_cell_status
\* ------------------------------------------------------------------------
NoneRgb == [none |-> TRUE, s |-> <<>>]

safe_rgb_noupper(fg) ==
    IF fg.type = "raise" THEN NoneRgb
    ELSE IF fg.type = "rgb" THEN [none |-> FALSE, s |-> fg.rgb]
    ELSE NoneRgb

safe_rgb(fg) ==
    IF fg.type = "raise" THEN NoneRgb
    ELSE IF fg.type = "rgb" THEN [none |-> FALSE, s |-> Upper(fg.rgb)]
    ELSE NoneRgb

NoneTheme == [theme_none |-> TRUE, theme |-> 0, tint_kind |-> "num", tint |-> 0]

\* fg.tint or 0.0 : None and 0 give 0.0, anything else is kept
safe_theme(fg) ==
    IF fg.type = "raise" THEN NoneTheme
    ELSE IF fg.type = "theme"
    THEN [theme_none |-> fg.theme_none,
          theme      |-> fg.theme,
          tint_kind  |-> IF fg.tint_kind = "none" THEN "num" ELSE fg.tint_kind,
          tint       |-> IF fg.tint_kind = "num" THEN fg.tint ELSE 0]
    ELSE NoneTheme

rgb_status(rgb) ==
    IF rgb = RGB_ZERO THEN "PENDENTE"
    ELSE IF rgb \in GREEN_RGB THEN "INVENTARIADO"
    ELSE IF rgb \in YELLOW_RGB THEN "EM ANDAMENTO"
    ELSE IF rgb \in RED_RGB THEN "PROBLEMA"
    ELSE "PENDENTE"

\* tint <= 0 on a tint that is not a number raises TypeError, which the
\* outer handler turns into PENDENTE; "and" short-circuits, so the tint is
\* compared only for theme 9 and theme 6.
theme_status(t) ==
    IF t.theme = 9 /\ t.tint_kind = "bad" THEN "PENDENTE"
    ELSE IF t.theme = 9 /\ t.tint <= 0 THEN "INVENTARIADO"
    ELSE IF t.theme = 6 /\ t.tint_kind = "bad" THEN "PENDENTE"
    ELSE IF t.theme = 6 /\ t.tint <= 0 THEN "INVENTARIADO"
    ELSE IF t.theme = 7 THEN "EM ANDAMENTO"
    ELSE IF t.theme = 2 THEN "PROBLEMA"
    ELSE "PENDENTE"

get_cell_status(c) ==
    LET fill == c.fill IN
    IF fill.kind = "missing" THEN "PENDENTE"
    ELSE IF fill.kind = "none" \/ fill.fill_type # "solid" THEN "PENDENTE"
    ELSE IF fill.fg.kind = "missing" THEN "PENDENTE"
    ELSE IF fill.fg.kind = "none" THEN "PENDENTE"
    ELSE LET rgb == safe_rgb(fill.fg) IN
         IF ~rgb.none /\ rgb.s # <<>> THEN rgb_status(rgb.s)
         ELSE LET t == safe_theme(fill.fg) IN
              IF ~t.theme_none THEN theme_status(t) ELSE "PENDENTE"

\* ------------------------------------------------------------------------
\* Cells of the pandas frame and dates
\* ------------------------------------------------------------------------
NaN == [na |-> TRUE, s |-> <<>>]
Text(s) == [na |-> FALSE, s |-> s]

\* str(v) of a frame value: NaN prints as "nan"
Str(v) == IF v.na THEN <<"n","a","n">> ELSE v.s

Digits == <<"0","1","2","3","4","5","6","7","8","9">>
IsDigit(c) == \E i \in DOMAIN Digits : Digits[i] = c
DigitVal(c) == (CHOOSE i \in DOMAIN Digits : Digits[i] = c) - 1

IsLeap(y) == (y % 4 = 0 /\ y % 100 # 0) \/ y % 400 = 0
DaysInMonth(y, m) ==
    IF m = 2 THEN (IF IsLeap(y) THEN 29 ELSE 28)
    ELSE IF m \in {4, 6, 9, 11} THEN 30 ELSE 31

NaT == [nat |-> TRUE, y |-> 0, m |-> 0, d |-> 0]
Timestamp(y, m, d) == [nat |-> FALSE, y |-> y, m |-> m, d |-> d]

\* pd.to_datetime(value, errors="coerce") on text of the form YYYY-MM-DD:
\* a calendar date gives its Timestamp, anything else gives NaT.
to_datetime(v) ==
    IF v.na THEN NaT
    ELSE LET s == v.s IN
         IF Len(s) = 10 /\ s[5] = "-" /\ s[8] = "-"
            /\ \A i \in {1, 2, 3, 4, 6, 7, 9, 10} : IsDigit(s[i])
         THEN LET y == 1000 * DigitVal(s[1]) + 100 * DigitVal(s[2])
                       + 10 * DigitVal(s[3]) + DigitVal(s[4])
                  m == 10 * DigitVal(s[6]) + DigitVal(s[7])
                  d == 10 * DigitVal(s[9]) + DigitVal(s[10])
              IN IF y >= 1 /\ m \in 1..12 /\ d >= 1 /\ d <= DaysInMonth(y, m)
                 THEN Timestamp(y, m, d)
                 ELSE NaT
         ELSE NaT

\* a < b on two Timestamps that are not NaT
TsLess(a, b) ==
    \/ a.y < b.y
    \/ a.y = b.y /\ a.m < b.m
    \/ a.y = b.y /\ a.m = b.m /\ a.d < b.d

TsGt(a, b) == ~a.nat /\ ~b.nat /\ TsLess(b, a)

\* a >= b as pandas compares: any comparison with NaT is False
TsGeq(a, b) == ~a.nat /\ ~b.nat /\ ~TsLess(a, b)

\* ------------------------------------------------------------------------
\* State
\* ------------------------------------------------------------------------
VARIABLES
    df_raw,           \* the frame pandas reads: row -> column -> value (0-based)
    n_cols,           \* number of columns of df_raw
    ws,               \* the openpyxl sheet: row -> column -> cell (1-based)
    pc,               \* position of the program
    exc,              \* exception raised by load_data, "" if none
    total_por_col,    \* column -> position count
    colunas_validas,  \* the valid columns, in sheet order
    datas,            \* valid column -> parsed date
    last_row,         \* last sheet row of the position block (1-based)
    i,                \* position of the loop in colunas_validas
    registros,        \* the records appended so far
    emitted,          \* history: the column each record of registros came from
    classified,       \* history: the <<row, column>> cells read through ws.cell
    df,               \* the report load_data returns
    ignorar_passado,  \* the sidebar flag
    today,            \* date.today()
    metrics,          \* the totals and the planning metrics of main
    shown,            \* what main displays
    cell,             \* the cell given to get_cell_status
    status            \* the result of get_cell_status

vars == <<df_raw, n_cols, ws, pc, exc, total_por_col, colunas_validas, datas,
          last_row, i, registros, emitted, classified, df, ignorar_passado,
          today, metrics, shown, cell, status>>

NoMetrics ==
    [total_pos |-> 0, total_inv |-> 0, total_ea |-> 0, total_prob |-> 0,
     total_pend |-> 0, total_falta |-> 0, n_dias |-> 0, ideal |-> 0]

\* ------------------------------------------------------------------------
\* load_data: the pandas part
\* ------------------------------------------------------------------------
n_rows == Cardinality(DOMAIN df_raw)

Columns == 0 .. (n_cols - 1)

\* df_raw.iloc[IDX_POS_START:] : a slice, empty when the frame is shorter
posicoes == {r \in DOMAIN df_raw : r >= IDX_POS_START}

position_count_nostrip(c) ==
    Cardinality({r \in posicoes : ~df_raw[r][c].na /\ Str(df_raw[r][c]) # <<>>})

\* col.dropna().apply(lambda v: str(v).strip() != "").sum()
position_count(c) ==
    Cardinality({r \in posicoes :
                    ~df_raw[r][c].na /\ Strip(Str(df_raw[r][c])) # <<>>})

WEEKEND == { <<"S","Á","B">>, <<"S","A","B">>, <<"D","O","M">> }

dias_uteis_casesensitive(c) ==
    ~(~df_raw[IDX_DIA][c].na /\ df_raw[IDX_DIA][c].s \in WEEKEND)

\* ~row_dia.str.upper().isin([...]) : NaN stays NaN, which is in no list
dias_uteis(c) ==
    ~(~df_raw[IDX_DIA][c].na /\ Upper(df_raw[IDX_DIA][c].s) \in WEEKEND)

DATA_HEADER == <<"D","a","t","a">>

\* row_data.notna() & (row_data != "Data")
tem_data(c) ==
    ~df_raw[IDX_DATA][c].na /\ df_raw[IDX_DATA][c].s # DATA_HEADER

\* dias_uteis & tem_data & (total_por_col > 0)
is_valid(c) == dias_uteis(c) /\ tem_data(c) /\ position_count(c) > 0

\* df_raw.columns[mask] : the columns of the mask, in order
valid_columns ==
    LET all == [k \in 1 .. n_cols |-> k - 1]
        Test(c) == is_valid(c)
    IN SelectSeq(all, Test)

\* ------------------------------------------------------------------------
\* load_data: the openpyxl part
\* ------------------------------------------------------------------------
\* ws.cell(row, column): a cell outside the stored ones is created blank
ws_cell(r, c) ==
    IF r \in DOMAIN ws /\ c \in DOMAIN ws[r] THEN ws[r][c] ELSE DefaultCell

first_row_header == IDX_POS_START

\* first_row = IDX_POS_START + 1
first_row == IDX_POS_START + 1

\* last_row = IDX_POS_START + len(posicoes)
last_row_value == IDX_POS_START + Cardinality(posicoes)

RECURSIVE count_from(_, _, _, _)
count_from(col_idx, r, lr, acc) ==
    IF r > lr THEN acc
    ELSE LET st == get_cell_status(ws_cell(r, col_idx)) IN
         count_from(col_idx, r + 1, lr,
             IF st = "INVENTARIADO" THEN [acc EXCEPT !.inv = @ + 1]
             ELSE IF st = "EM ANDAMENTO" THEN [acc EXCEPT !.em_and = @ + 1]
             ELSE IF st = "PROBLEMA" THEN [acc EXCEPT !.prob = @ + 1]
             ELSE acc)

\* for r in range(first_row, last_row + 1)
count_green_cells(col_idx, fr, lr) ==
    count_from(col_idx, fr, lr, [inv |-> 0, em_and |-> 0, prob |-> 0])

Max(a, b) == IF a >= b THEN a ELSE b

\* the dict appended to registros for a column
registro(c) ==
    LET total == total_por_col[c]
        cnt   == count_green_cells(c + 1, first_row, last_row)
        pend  == total - cnt.inv - cnt.em_and - cnt.prob
    IN [Data         |-> datas[c],
        Dia          |-> Str(df_raw[IDX_DIA][c]),
        Total        |-> total,
        Inventariado |-> cnt.inv,
        Em_Andamento |-> cnt.em_and,
        Problema     |-> cnt.prob,
        Pendente     |-> Max(pend, 0)]

\* ------------------------------------------------------------------------
\* df.sort_values("Data"): the rows with a date in ascending order, then the
\* rows without one (na_position "last").  Frames of fewer than 16 rows are
\* sorted by insertion, which keeps equal dates in their order.
\* ------------------------------------------------------------------------
RECURSIVE insert_sorted(_, _)
insert_sorted(x, s) ==
    IF s = <<>> THEN <<x>>
    ELSE IF TsLess(x.Data, Head(s).Data) THEN <<x>> \o s
    ELSE <<Head(s)>> \o insert_sorted(x, Tail(s))

RECURSIVE insertion_sort(_)
insertion_sort(s) ==
    IF s = <<>> THEN <<>>
    ELSE insert_sorted(s[Len(s)], insertion_sort(SubSeq(s, 1, Len(s) - 1)))

sort_values_unsorted(rs) == rs

sort_values(rs) ==
    LET HasDate(x) == ~x.Data.nat
        NoDate(x)  == x.Data.nat
    IN insertion_sort(SelectSeq(rs, HasDate)) \o SelectSeq(rs, NoDate)

sort_accepts_empty(rs) == FALSE

\* pd.DataFrame([]) has no column at all: sort_values("Data") raises KeyError
sort_raises(rs) == rs = <<>>

\* ------------------------------------------------------------------------
\* main: totals and planning metrics
\* ------------------------------------------------------------------------
RECURSIVE SumSeq(_)
SumSeq(s) == IF s = <<>> THEN 0 ELSE Head(s) + SumSeq(Tail(s))

mask_aberto_after(r, flag, t) ==
    r.Inventariado < r.Total /\ (flag => TsGt(r.Data, t))

\* mask_aberto = df["Inventariado"] < df["Total"]
\* if ignorar_passado: mask_aberto = mask_aberto & (df["Data"] >= today)
mask_aberto(r, flag, t) ==
    r.Inventariado < r.Total /\ (flag => TsGeq(r.Data, t))

ideal_floor(total_falta, n_dias) ==
    IF n_dias > 0 THEN total_falta \div n_dias ELSE 0

\* int((total_falta + n_dias - 1) / n_dias) if n_dias > 0 else 0
\* (the quotient of two non-negative integers, truncated)
ideal_of(total_falta, n_dias) ==
    IF n_dias > 0 THEN (total_falta + n_dias - 1) \div n_dias ELSE 0

compute_metrics(d, flag, t) ==
    LET total_pos   == SumSeq([k \in DOMAIN d |-> d[k].Total])
        total_inv   == SumSeq([k \in DOMAIN d |-> d[k].Inventariado])
        total_ea    == SumSeq([k \in DOMAIN d |-> d[k].Em_Andamento])
        total_prob  == SumSeq([k \in DOMAIN d |-> d[k].Problema])
        total_pend  == SumSeq([k \in DOMAIN d |-> d[k].Pendente])
        total_falta == total_ea + total_prob + total_pend
        Open(r)     == mask_aberto(r, flag, t)
        n_dias      == Len(SelectSeq(d, Open))
    IN [total_pos |-> total_pos, total_inv |-> total_inv,
        total_ea |-> total_ea, total_prob |-> total_prob,
        total_pend |-> total_pend, total_falta |-> total_falta,
        n_dias |-> n_dias, ideal |-> ideal_of(total_falta, n_dias)]

\* ------------------------------------------------------------------------
\* Sheets the program is run on
\* ------------------------------------------------------------------------
Blank  == [fill |-> PatternFill("none", RgbColor(RGB_ZERO))]
Green  == [fill |-> PatternFill("solid", RgbColor(<<"F","F","0","0","B","0","5","0">>))]
Yellow == [fill |-> PatternFill("solid", ThemeColor(7, "num", 4))]
Red    == [fill |-> PatternFill("solid", RgbColor(<<"f","f","f","f","0","0","0","0">>))]

X     == Text(<<"x">>)
Space == Text(<<" ">>)

\* a cell of the position block: its value and its fill
CellKinds ==
    { [v |-> X, f |-> Blank], [v |-> X, f |-> Green], [v |-> X, f |-> Yellow],
      [v |-> X, f |-> Red], [v |-> NaN, f |-> Blank], [v |-> NaN, f |-> Green],
      [v |-> Space, f |-> Blank] }

UniformKinds ==
    { [v |-> X, f |-> Green], [v |-> NaN, f |-> Blank], [v |-> Space, f |-> Yellow] }

Labels ==
    { NaN, Text(<<"T","E","R">>), Text(<<"S","A","B">>), Text(<<"s","a","b">>),
      Text(<<"S","Á","B">>), Text(<<"S","á","b">>), Text(<<"D","O","M">>),
      Text(<<"D","o","m">>) }

D1 == Text(<<"2","0","2","5","-","0","3","-","0","3">>)
D2 == Text(<<"2","0","2","5","-","0","3","-","0","4">>)
D3 == Text(<<"2","0","2","5","-","0","3","-","0","5">>)

DateCells ==
    { NaN, Text(DATA_HEADER), D3, Text(<<"a","b","c">>),
      Text(<<"2","0","2","5","-","0","2","-","3","0">>) }

Todays == { Timestamp(2025, 3, 4), Timestamp(2025, 3, 6) }

Column(dia, data, cells) == [dia |-> dia, data |-> data, cells |-> cells]

\* columns that vary the weekday label, the date cell and the emptiness
LabelColumns(n) ==
    { Column(l, d, [k \in 1 .. n |-> u]) :
        l \in Labels, d \in DateCells, u \in UniformKinds }

\* columns that vary the values and the fills of the position block
BlockColumns(n) ==
    { Column(Text(<<"T","E","R">>), D2, cs) : cs \in [1 .. n -> CellKinds] }

\* ordinary columns beside them
PlainColumns(n) ==
    { Column(Text(<<"Q","U","A">>), D1, [k \in 1 .. n |-> [v |-> X, f |-> Blank]]),
      Column(Text(<<"S","E","G">>), Text(<<"a","b","c">>),
             [k \in 1 .. n |-> [v |-> X, f |-> Red]]),
      Column(Text(<<"s","á","b">>), D1, [k \in 1 .. n |-> [v |-> X, f |-> Green]]) }

HeaderText == Text(<<"h">>)

\* the frame of a sheet with nr rows whose columns are cols
MakeFrame(nr, cols) ==
    [r \in 0 .. (nr - 1) |->
        [c \in 0 .. (Len(cols) - 1) |->
            IF r = IDX_DIA THEN cols[c + 1].dia
            ELSE IF r = IDX_DATA THEN cols[c + 1].data
            ELSE IF r >= IDX_POS_START
                 THEN cols[c + 1].cells[r - IDX_POS_START + 1].v
                 ELSE HeaderText]]

\* the sheet as openpyxl sees it: the header rows and the rows past the block
\* are coloured, the block carries the fills of the columns
PhysRows == IDX_POS_START + MaxPos + 1

MakeSheet(n, cols) ==
    [r \in 1 .. PhysRows |->
        [c \in 1 .. Len(cols) |->
            IF r > IDX_POS_START /\ r <= IDX_POS_START + n
            THEN cols[c].cells[r - IDX_POS_START].f
            ELSE Green]]

\* pandas drops the trailing rows that hold no value
LastRowHasData(frame, nr, nc) ==
    IF nr = 0 THEN TRUE ELSE \E c \in 0 .. (nc - 1) : ~frame[nr - 1][c].na

InitRest ==
    /\ pc = "start"
    /\ exc = ""
    /\ total_por_col = <<>>
    /\ colunas_validas = <<>>
    /\ datas = <<>>
    /\ last_row = 0
    /\ i = 1
    /\ registros = <<>>
    /\ emitted = <<>>
    /\ classified = {}
    /\ df = <<>>
    /\ ignorar_passado = FALSE
    /\ today = NaT
    /\ metrics = NoMetrics
    /\ shown = ""
    /\ cell = DefaultCell
    /\ status = ""

\* the columns of a sheet: one column of the varied kinds at position at,
\* ordinary columns at the other positions
Sheet(varied, at, rest) ==
    [k \in DOMAIN rest \cup {at} |-> IF k = at THEN varied ELSE rest[k]]

\* a sheet with a block of n >= 1 position rows
InitFull ==
    \E n \in 1 .. MaxPos, nc \in 1 .. MaxCols :
      \E varied \in LabelColumns(n) \cup BlockColumns(n), at \in 1 .. nc :
      \E rest \in [(1 .. nc) \ {at} -> PlainColumns(n)] :
        LET cols == Sheet(varied, at, rest) IN
        /\ df_raw = MakeFrame(IDX_POS_START + n, cols)
        /\ n_cols = nc
        /\ ws = MakeSheet(n, cols)
        /\ LastRowHasData(df_raw, IDX_POS_START + n, nc)

\* a sheet that stops at or before the row of index IDX_POS_START
InitShort ==
    \E nr \in 0 .. IDX_POS_START, nc \in 1 .. MaxCols :
      \E varied \in LabelColumns(0), at \in 1 .. nc :
      \E rest \in [(1 .. nc) \ {at} -> PlainColumns(0)] :
        LET cols == Sheet(varied, at, rest) IN
        /\ df_raw = MakeFrame(nr, cols)
        /\ n_cols = IF nr = 0 THEN 0 ELSE nc
        /\ ws = MakeSheet(0, cols)
        /\ LastRowHasData(df_raw, nr, nc)

Init == (InitFull \/ InitShort) /\ InitRest

\* ------------------------------------------------------------------------
\* load_data
\* ------------------------------------------------------------------------
\* reading the sheet with pandas, the masks and the dates; df_raw.iloc[k]
\* raises IndexError when the frame has no row k
LoadRead ==
    /\ pc = "start"
    /\ IF n_rows <= IDX_DIA \/ n_rows <= IDX_DATA
       THEN /\ pc' = "raised"
            /\ exc' = "IndexError"
            /\ UNCHANGED <<total_por_col, colunas_validas, datas, last_row>>
       ELSE /\ pc' = "loop"
            /\ exc' = ""
            /\ total_por_col' = [c \in Columns |-> position_count(c)]
            /\ colunas_validas' = valid_columns
            /\ datas' = [c \in {c \in Columns : is_valid(c)} |->
                            to_datetime(df_raw[IDX_DATA][c])]
            /\ last_row' = last_row_value
    /\ UNCHANGED <<df_raw, n_cols, ws, i, registros, emitted, classified, df,
                   ignorar_passado, today, metrics, shown, cell, status>>

\* one iteration of "for pandas_col_idx in colunas_validas"
LoopColumn ==
    /\ pc = "loop"
    /\ i <= Len(colunas_validas)
    /\ LET c == colunas_validas[i] IN
       IF total_por_col[c] = 0
       THEN UNCHANGED <<registros, emitted, classified>>
       ELSE /\ registros' = Append(registros, registro(c))
            /\ emitted' = Append(emitted, c)
            /\ classified' = classified \cup
                                {<<r, c + 1>> : r \in first_row .. last_row}
    /\ i' = i + 1
    /\ UNCHANGED <<df_raw, n_cols, ws, pc, exc, total_por_col, colunas_validas,
                   datas, last_row, df, ignorar_passado, today, metrics, shown,
                   cell, status>>

\* after the loop: df = pd.DataFrame(registros); df.sort_values("Data")
SortValues ==
    /\ pc = "loop"
    /\ i > Len(colunas_validas)
    /\ IF sort_raises(registros)
       THEN /\ pc' = "raised"
            /\ exc' = "KeyError"
            /\ df' = df
       ELSE /\ pc' = "returned"
            /\ exc' = ""
            /\ df' = sort_values(registros)
    /\ UNCHANGED <<df_raw, n_cols, ws, total_por_col, colunas_validas, datas,
                   last_row, i, registros, emitted, classified,
                   ignorar_passado, today, metrics, shown, cell, status>>

\* ------------------------------------------------------------------------
\* main
\* ------------------------------------------------------------------------
\* except Exception as e: st.error("Erro ao processar o arquivo"); stop
MainExcept ==
    /\ pc = "raised"
    /\ pc' = "stopped"
    /\ shown' = "processing_error"
    /\ UNCHANGED <<df_raw, n_cols, ws, exc, total_por_col, colunas_validas,
                   datas, last_row, i, registros, emitted, classified, df,
                   ignorar_passado, today, metrics, cell, status>>

\* load_data returned: the df.empty warning, or the totals and the metrics
MainReport ==
    /\ pc = "returned"
    /\ \E flag \in BOOLEAN, t \in Todays :
         /\ ignorar_passado' = flag
         /\ today' = t
         /\ IF df = <<>>
            THEN /\ pc' = "stopped"
                 /\ shown' = "no_position_warning"
                 /\ metrics' = metrics
            ELSE /\ pc' = "done"
                 /\ metrics' = compute_metrics(df, flag, t)
                 /\ shown' = IF metrics'.n_dias > 0
                             THEN "meta_chart" ELSE "all_days_completed"
    /\ UNCHANGED <<df_raw, n_cols, ws, exc, total_por_col, colunas_validas,
                   datas, last_row, i, registros, emitted, classified, df,
                   cell, status>>

Next == LoadRead \/ LoopColumn \/ SortValues \/ MainExcept \/ MainReport

Spec == Init /\ [][Next]_vars

\* ------------------------------------------------------------------------
\* The classifier on its own: every shape of colour descriptor
\* ------------------------------------------------------------------------
MaxTheme == 10

RgbCodes ==
    GREEN_RGB \cup YELLOW_RGB \cup RED_RGB \cup
    { RGB_ZERO, <<>>,
      <<"f","f","0","0","b","0","5","0">>,
      <<"F","f","f","f","c","0","0","0">>,
      <<"f","f","c","0","0","0","0","0">>,
      <<"F","F","1","2","3","4","5","6">>,
      <<"F","F","0","0","B","0","5","1">>,
      <<"0","0","B","0","5","0">> }

Tints == { <<"num", -5>>, <<"num", 0>>, <<"num", 4>>, <<"none", 0>>, <<"bad", 0>> }

Colors ==
    { RgbColor(code) : code \in RgbCodes } \cup
    { ThemeColor(th, tt[1], tt[2]) : th \in 0 .. MaxTheme, tt \in Tints } \cup
    { ThemeNoneColor, OtherColor("indexed"), OtherColor("raise"),
      NoColor("none"), NoColor("missing") }

FillTypes == {"solid", "none", "gray125", "linear"}

Descriptors ==
    { [fill |-> PatternFill(ft, fg)] : ft \in FillTypes, fg \in Colors } \cup
    { [fill |-> NoFill("none")], [fill |-> NoFill("missing")] }

InitClassify ==
    /\ cell \in Descriptors
    /\ status = ""
    /\ pc = "classify"
    /\ df_raw = <<>>
    /\ n_cols = 0
    /\ ws = <<>>
    /\ exc = ""
    /\ total_por_col = <<>>
    /\ colunas_validas = <<>>
    /\ datas = <<>>
    /\ last_row = 0
    /\ i = 1
    /\ registros = <<>>
    /\ emitted = <<>>
    /\ classified = {}
    /\ df = <<>>
    /\ ignorar_passado = FALSE
    /\ today = NaT
    /\ metrics = NoMetrics
    /\ shown = ""

Classify ==
    /\ pc = "classify"
    /\ status' = get_cell_status(cell)
    /\ pc' = "classified"
    /\ UNCHANGED <<df_raw, n_cols, ws, exc, total_por_col, colunas_validas,
                   datas, last_row, i, registros, emitted, classified, df,
                   ignorar_passado, today, metrics, shown, cell>>

NextClassify == Classify

SpecClassify == InitClassify /\ [][NextClassify]_vars

\* ------------------------------------------------------------------------
\* Vocabulary of the properties, stated on the sheet itself
\* ------------------------------------------------------------------------
Loaded == pc \in {"returned", "done"}

\* two texts are equal when case is ignored
SameIgnoringCase(s, u) ==
    /\ Len(s) = Len(u)
    /\ \A j \in DOMAIN s :
          \/ s[j] = u[j]
          \/ \E k \in DOMAIN LowerChars :
                {s[j], u[j]} = {LowerChars[k], UpperChars[k]}

IsWeekendLabel(v) ==
    /\ ~v.na
    /\ \E w \in { <<"S","A","B">>, <<"S","Á","B">>, <<"D","O","M">> } :
          SameIgnoringCase(v.s, w)

\* a value that is not empty once surrounding whitespace is removed
NonBlank(v) == ~v.na /\ \E j \in DOMAIN v.s : v.s[j] \notin {" ", "\t", "\n"}

BlockRows == {r \in DOMAIN df_raw : r >= 6}

PositionCount(c) == Cardinality({r \in BlockRows : NonBlank(df_raw[r][c])})

HasDateCell(c) == ~df_raw[4][c].na /\ df_raw[4][c].s # <<"D","a","t","a">>

ValidColumn(c) ==
    /\ n_rows >= 7
    /\ ~IsWeekendLabel(df_raw[2][c])
    /\ HasDateCell(c)
    /\ PositionCount(c) > 0

Occurrences(s, x) == Cardinality({k \in DOMAIN s : s[k] = x})

DateOrd(ts) == (ts.y * 12 + ts.m) * 31 + ts.d

HexChars == <<"0","1","2","3","4","5","6","7","8","9","A","B","C","D","E","F">>
HexLower == <<"0","1","2","3","4","5","6","7","8","9","a","b","c","d","e","f">>
HexVal(ch) ==
    IF \E k \in DOMAIN HexChars : ch \in {HexChars[k], HexLower[k]}
    THEN (CHOOSE k \in DOMAIN HexChars : ch \in {HexChars[k], HexLower[k]}) - 1
    ELSE 0 - 1
CodeOf(s) == [j \in DOMAIN s |-> HexVal(s[j])]

DoneCodes ==
    { CodeOf(<<"F","F","0","0","F","F","0","0">>),
      CodeOf(<<"F","F","0","0","B","0","5","0">>),
      CodeOf(<<"F","F","9","2","D","0","5","0">>),
      CodeOf(<<"F","F","7","0","A","D","4","7">>) }
InProgressCodes ==
    { CodeOf(<<"F","F","F","F","F","F","0","0">>),
      CodeOf(<<"F","F","F","F","C","0","0","0">>),
      CodeOf(<<"F","F","F","F","F","F","9","9">>),
      CodeOf(<<"F","F","F","F","E","B","9","C">>) }
ProblemCodes ==
    { CodeOf(<<"F","F","F","F","0","0","0","0">>),
      CodeOf(<<"F","F","C","0","0","0","0","0">>),
      CodeOf(<<"F","F","F","F","4","4","4","4">>) }

\* the status the classifier is to give a descriptor
ExpectedStatus(c) ==
    LET f == c.fill
        solid == f.kind = "fill" /\ f.fill_type = "solid" /\ f.fg.kind = "color"
        isRgb == solid /\ f.fg.type = "rgb"
        isTheme == solid /\ f.fg.type = "theme" /\ ~f.fg.theme_none
        tintLeqZero == f.fg.tint_kind = "none"
                          \/ (f.fg.tint_kind = "num" /\ f.fg.tint <= 0)
    IN IF isRgb /\ CodeOf(f.fg.rgb) \in DoneCodes THEN "INVENTARIADO"
       ELSE IF isRgb /\ CodeOf(f.fg.rgb) \in InProgressCodes THEN "EM ANDAMENTO"
       ELSE IF isRgb /\ CodeOf(f.fg.rgb) \in ProblemCodes THEN "PROBLEMA"
       ELSE IF isTheme /\ f.fg.theme \in {9, 6} /\ tintLeqZero THEN "INVENTARIADO"
       ELSE IF isTheme /\ f.fg.theme = 7 THEN "EM ANDAMENTO"
       ELSE IF isTheme /\ f.fg.theme = 2 THEN "PROBLEMA"
       ELSE "PENDENTE"

\* C2: get_cell_status returns, for every colour descriptor, one of the four
\* statuses: Done / InProgress / Problem for a solid fill whose RGB code is in
\* the matching set, Done for theme 9 or 6 with tint <= 0, InProgress for
\* theme 7, Problem for theme 2, and Pending for every other descriptor,
\* malformed ones included.
C2_ClassifierTable ==
    pc = "classified" =>
        /\ status \in Statuses
        /\ status = ExpectedStatus(cell)

C2_Witness ==
    /\ pc = "classified"
    /\ cell.fill.kind = "fill" /\ cell.fill.fill_type = "solid"
    /\ cell.fill.fg.kind = "color" /\ cell.fill.fg.type = "rgb"
    /\ cell.fill.fg.rgb = <<"f","f","c","0","0","0","0","0">>
    /\ status = "PROBLEMA"

\* C3: with remaining = totalInProgress + totalProblem + totalPending, the
\* daily target is the ceiling of remaining / openDayCount when there are
\* open days (47 over 5 gives 10), and 0 when there is none.
C3_IdealIsCeiling ==
    /\ pc = "done" =>
         LET remaining == metrics.total_ea + metrics.total_prob
                             + metrics.total_pend
             n == metrics.n_dias
         IN /\ n > 0 => /\ metrics.ideal * n >= remaining
                        /\ (metrics.ideal - 1) * n < remaining
            /\ n = 0 => metrics.ideal = 0
    /\ ideal_of(47, 5) = 10

C3_Witness ==
    /\ pc = "done"
    /\ metrics.n_dias > 1
    /\ (metrics.total_ea + metrics.total_prob + metrics.total_pend)
          % metrics.n_dias # 0

\* C4: no Day Record comes from a column whose weekday label is SAB, SÁB or
\* DOM in any case.
C4_NoWeekendRecord ==
    /\ \A k \in DOMAIN emitted : ~IsWeekendLabel(df_raw[2][emitted[k]])
    /\ \A k \in DOMAIN registros : ~IsWeekendLabel(Text(registros[k].Dia))
    /\ \A k \in DOMAIN df : ~IsWeekendLabel(Text(df[k].Dia))

C4_Witness ==
    /\ Loaded
    /\ \E c \in Columns :
          /\ df_raw[2][c] = Text(<<"s","á","b">>)
          /\ HasDateCell(c)
          /\ PositionCount(c) > 0

\* C5: load_data emits exactly one Day Record for each column with a
\* non-weekend label, a date cell that is neither empty nor "Data" and a
\* position count > 0, none for any other column, and the record's Total is
\* the column's position count.
C5_OneRecordPerValidColumn ==
    Loaded =>
        /\ \A c \in Columns :
              Occurrences(emitted, c) = IF ValidColumn(c) THEN 1 ELSE 0
        /\ Len(registros) = Len(emitted)
        /\ Len(df) = Len(emitted)
        /\ \A k \in DOMAIN emitted :
              /\ registros[k].Total = PositionCount(emitted[k])
              /\ registros[k].Total > 0

C5_Witness ==
    /\ Loaded
    /\ \E c \in Columns :
          /\ ~IsWeekendLabel(df_raw[2][c]) /\ HasDateCell(c)
          /\ PositionCount(c) = 0
          /\ \E r \in BlockRows : ~df_raw[r][c].na
          /\ Occurrences(emitted, c) = 0
    /\ Len(emitted) > 0

\* C6: the report is sorted non-decreasing by date (consecutive records with
\* parsed dates are in order) and holds exactly the records emitted.
C6_SortedByDate ==
    Loaded =>
        /\ \A k \in 1 .. (Len(df) - 1) :
              (~df[k].Data.nat /\ ~df[k + 1].Data.nat)
                 => DateOrd(df[k].Data) <= DateOrd(df[k + 1].Data)
        /\ Len(df) = Len(registros)
        /\ \A k \in DOMAIN registros :
              Occurrences(df, registros[k]) = Occurrences(registros, registros[k])

C6_Witness ==
    /\ Loaded
    /\ Len(df) > 1
    /\ df # registros

\* C7: on a sheet of fewer than 7 rows load_data fails with an error to the
\* caller and returns no report.
C7_ShortSheetFails ==
    n_rows < 7 =>
        /\ pc \notin {"returned", "done"}
        /\ df = <<>>
        /\ shown \in {"", "processing_error"}
        /\ pc = "stopped" => (shown = "processing_error" /\ exc # "")

C7_Witness ==
    /\ n_rows = 6
    /\ pc = "stopped"
    /\ shown = "processing_error"

\* C8: openDayCount is the number of Day Records with Done < Total, and with
\* the ignore-past flag on, with moreover a date that is not null and is
\* today or later.
C8_OpenDayCount ==
    pc = "done" =>
        metrics.n_dias =
            Cardinality({k \in DOMAIN df :
                /\ df[k].Inventariado < df[k].Total
                /\ ignorar_passado =>
                      (~df[k].Data.nat /\ DateOrd(df[k].Data) >= DateOrd(today))})

C8_Witness ==
    /\ pc = "done"
    /\ ignorar_passado
    /\ \E k \in DOMAIN df :
          df[k].Inventariado < df[k].Total /\ df[k].Data.nat
    /\ \E k \in DOMAIN df :
          df[k].Inventariado < df[k].Total /\ df[k].Data = today
    /\ metrics.n_dias = 1

\* C9: for every valid column exactly the N cells of its position block are
\* classified, sheet rows 7 .. 6 + N of sheet column (column index + 1), and
\* Done / InProgress / Problem are the numbers of those cells per status.
C9_ClassifiesBlockOnly ==
    LET N == Cardinality(BlockRows)
        CountOf(c, st) ==
            Cardinality({r \in 7 .. (6 + N) : get_cell_status(ws[r][c + 1]) = st})
    IN /\ classified =
            {<<r, emitted[k] + 1>> : r \in 7 .. (6 + N), k \in DOMAIN emitted}
       /\ \A k \in DOMAIN emitted :
            /\ registros[k].Inventariado = CountOf(emitted[k], "INVENTARIADO")
            /\ registros[k].Em_Andamento = CountOf(emitted[k], "EM ANDAMENTO")
            /\ registros[k].Problema = CountOf(emitted[k], "PROBLEMA")

C9_Witness ==
    /\ Loaded
    /\ Cardinality(BlockRows) = 2
    /\ \E k \in DOMAIN emitted :
          /\ emitted[k] = 1
          /\ registros[k].Inventariado = 1
          /\ registros[k].Problema = 1

\* C10: a sheet of 7 or more rows without any valid column makes load_data
\* return an empty report without raising, and main shows the
\* "no position found" warning.
C10_EmptyReportWarning ==
    (n_rows >= 7 /\ \A c \in Columns : ~ValidColumn(c)) =>
        /\ exc = ""
        /\ pc # "raised"
        /\ pc = "stopped" => shown = "no_position_warning"

\* C11: whenever the report is not empty and openDayCount is 0 (the daily
\* target is 0 and "all days completed" is shown), nothing remains:
\* totalInProgress + totalProblem + totalPending = 0, for both values of the
\* ignore-past flag.
C11_ZeroTargetMeansNothingRemains ==
    (pc = "done" /\ metrics.n_dias = 0) =>
        /\ metrics.ideal = 0
        /\ shown = "all_days_completed"
        /\ metrics.total_ea + metrics.total_prob + metrics.total_pend = 0

====
